---- MODULE Spec2Model ----
(***************************************************************************)
(* Model of src/src/visual_head/pipeline_visual_head.py: the SlowFast      *)
(* visual feature extraction pipeline.                                     *)
(*                                                                         *)
(* Two specifications share the variables:                                 *)
(*   Spec    the batch driver process_videos, one action per stage of the  *)
(*           loop body (open, load+preprocess+pack, extract, write) with   *)
(*           the except-branch folded into the stage that raises;          *)
(*   SpecFn  the pure sampling functions (frame index sampling, temporal   *)
(*           resampling, pathway packing) applied to bounded inputs.       *)
(*                                                                         *)
(* Abstractions: pixel data, the spatial resize/crop and the normalisation *)
(* are left out; a frame is identified by its index in the video.  The     *)
(* float values of linspace are modelled by exact rational arithmetic and  *)
(* truncation.  A feature vector is identified by the video it was         *)
(* computed from.  Time is a logical clock that ticks once per stage.      *)
(* Exceptions that are not subclasses of Exception (KeyboardInterrupt) are *)
(* not modelled.                                                           *)
(***************************************************************************)
EXTENDS Integers, Sequences, FiniteSets, TLC

VARIABLES
    all_videos,     \* find_all_videos result: sequence of stems; a path is its position
    headAttr,       \* structure of the wrapped model: "proj", "projection" or "none"
    hooks,          \* number of forward hooks registered on the projection layer
    h5_file,        \* visual_features.h5 on disk: "absent", "old", "open", "closed"
    hf,             \* datasets of the container opened by this run: stem -> features
    metadata,       \* processing_metadata.json: "absent" or the dumped report
    pc,             \* position of process_videos
    idx,            \* enumerate index of the current video (1-based)
    now,            \* logical clock (time.time())
    start_time,     \* start_time of the current iteration
    cap,            \* the cv2.VideoCapture of the current video
    frames_list,    \* [slow, fast] pathways of the current video
    features,       \* output of the feature extractor for the current video
    all_results,    \* per-video records
    total_stats,    \* aggregate counters
    returned,       \* return value of process_videos, or "none"
    called,         \* SpecFn: name of the function applied
    arg1, arg2,     \* SpecFn: its arguments
    result,         \* SpecFn: its result (slow pathway for pack_pathway_output)
    result2         \* SpecFn: the fast pathway of pack_pathway_output

driverVars == <<all_videos, headAttr, hooks, h5_file, hf, metadata, pc, idx, now,
                start_time, cap, frames_list, features, all_results, total_stats,
                returned>>
fnVars == <<called, arg1, arg2, result, result2>>
vars == <<driverVars, fnVars>>

----------------------------------------------------------------------------
(* Bounds of the model *)

MaxVideos == 3          \* longest list of discovered videos
MaxFrameCount == 70     \* largest CAP_PROP_FRAME_COUNT tried by the driver
MaxF == 12              \* SpecFn: largest small frame count
MaxM == 6               \* SpecFn: largest small max_frames / target_frames
MaxExtra == 6           \* SpecFn: frame counts tried above the program constants

(* Program constants *)

MaxFrames == 64         \* load_video_opencv(video_path, max_frames=64)
TargetFrames == 32      \* preprocess_frames(..., target_frames=32)
SlowStride == 4         \* pack_pathway_output: T >= 4, T // 4

Stems == {"a", "b"}
HeadAttrs == {"proj", "projection", "none"}

Max(a, b) == IF a >= b THEN a ELSE b
Min(a, b) == IF a <= b THEN a ELSE b

----------------------------------------------------------------------------
(* Pure functions *)

\* int(v) / .long() of the num evenly spaced values from 0 to stop
\* (np.linspace, torch.linspace); one value only is the start value.
LinspaceInt(stop, num) ==
    [i \in 1..num |-> IF num = 1 THEN 0 ELSE ((i - 1) * stop) \div (num - 1)]

\* torch.index_select / indexing of a frame sequence by 0-based indices
IndexSelect(frames, indices) ==
    [j \in 1..Len(indices) |-> frames[indices[j] + 1]]

\* list(range(n))
Range(n) == [i \in 1..n |-> i - 1]

FrameIndicesOffByOne(total_frames, max_frames) ==
    IF total_frames <= max_frames
    THEN Range(total_frames)
    ELSE LinspaceInt(total_frames, max_frames)

\* load_video_opencv: the frame indices to seek to
FrameIndices(total_frames, max_frames) ==
    IF total_frames <= max_frames
    THEN Range(total_frames)
    ELSE LinspaceInt(total_frames - 1, max_frames)

\* load_video_opencv: the frames that cap.read() returns, in order
ReadFrames(c, max_frames) ==
    SelectSeq(FrameIndices(c.total_frames, max_frames), LAMBDA f : f \in c.readable)

TemporalIndicesFloorRepeat(T, target_frames) ==
    IF T > target_frames
    THEN LinspaceInt(T - 1, target_frames)
    ELSE IF T < target_frames
         THEN LET repeat_factor == target_frames \div T
                  repeated == [j \in 1..(repeat_factor * T) |-> (j - 1) % T]
              IN  SubSeq(repeated, 1, Min(target_frames, Len(repeated)))
         ELSE Range(T)

\* preprocess_frames: index of the input frame at each output position
TemporalIndices(T, target_frames) ==
    IF T > target_frames
    THEN LinspaceInt(T - 1, target_frames)
    ELSE IF T < target_frames
         THEN LET repeat_factor == (target_frames + T - 1) \div T
                  repeated == [j \in 1..(repeat_factor * T) |-> (j - 1) % T]
              IN  SubSeq(repeated, 1, Min(target_frames, Len(repeated)))
         ELSE Range(T)

\* preprocess_frames, temporal part
preprocess_frames(frames, target_frames) ==
    IndexSelect(frames, TemporalIndices(Len(frames), target_frames))

SlowIndicesCeil(T) ==
    IF T >= SlowStride
    THEN LinspaceInt(T - 1, Max(1, (T + SlowStride - 1) \div SlowStride))
    ELSE Range(T)

\* pack_pathway_output: indices of the slow pathway in the fast pathway
SlowIndices(T) ==
    IF T >= SlowStride
    THEN LinspaceInt(T - 1, Max(1, T \div SlowStride))
    ELSE Range(T)

pack_pathway_output(frames) ==
    [slow |-> IndexSelect(frames, SlowIndices(Len(frames))), fast |-> frames]

----------------------------------------------------------------------------
(* The batch driver *)

\* What a video file can be, as seen through cv2.VideoCapture
FrameCounts == {1, TargetFrames, MaxFrames, MaxFrameCount}
Captures ==
    {[opened |-> FALSE, total_frames |-> 0, readable |-> {}],
     [opened |-> TRUE, total_frames |-> 0, readable |-> {}]}
    \cup UNION {{[opened |-> TRUE, total_frames |-> n, readable |-> r] :
                    r \in {{}, 0..(n - 1), {f \in 0..(n - 1) : f % 2 = 0}}} :
                 n \in FrameCounts}
NoCapture == [opened |-> FALSE, total_frames |-> 0, readable |-> {}]

ErrCannotOpen == "Cannot open video"
ErrNoFrames == "Video has no frames"
ErrNoRead == "No frames could be read"
ErrModel == "model forward raised"
ErrExists == "Unable to create dataset (name already exists)"
ErrWrite == "Unable to create dataset (write failed)"

ZeroStats ==
    [total_videos |-> 0, successful |-> 0, failed |-> 0,
     processing_times |-> <<>>, feature_shapes |-> <<>>]

NoFrames == [slow |-> <<>>, fast |-> <<>>]
NoFeatures == [src |-> 0, shape |-> "none"]

SeqsUpTo(S, n) == UNION {[1..k -> S] : k \in 0..n}

Idle ==
    /\ hooks = 0
    /\ hf = <<>>
    /\ metadata = "absent"
    /\ pc = "scan"
    /\ idx = 0
    /\ now = 0
    /\ start_time = 0
    /\ cap = NoCapture
    /\ frames_list = NoFrames
    /\ features = NoFeatures
    /\ all_results = <<>>
    /\ total_stats = ZeroStats
    /\ returned = "none"

FnIdle ==
    /\ called = "none"
    /\ arg1 = 0
    /\ arg2 = 0
    /\ result = <<>>
    /\ result2 = <<>>

Init ==
    /\ all_videos \in SeqsUpTo(Stems, MaxVideos)
    /\ headAttr \in HeadAttrs
    /\ h5_file \in {"absent", "old"}
    /\ Idle
    /\ FnIdle

video_name == all_videos[idx]

NextVideoBreaks ==
    /\ idx' = idx + 1
    /\ pc' = "report"

\* end of one loop iteration: the for statement takes the next video or ends
NextVideo ==
    /\ idx' = idx + 1
    /\ pc' = IF idx < Len(all_videos) THEN "open" ELSE "report"

RecordFailureNoCount(e) ==
    /\ all_results' = Append(all_results,
            [video |-> video_name, video_path |-> idx, error |-> e,
             processing_time |-> (now + 1) - start_time, status |-> "failed"])
    /\ total_stats' = total_stats

\* the except branch
RecordFailure(e) ==
    /\ all_results' = Append(all_results,
            [video |-> video_name, video_path |-> idx, error |-> e,
             processing_time |-> (now + 1) - start_time, status |-> "failed"])
    /\ total_stats' = [total_stats EXCEPT !.failed = @ + 1]

ScanOpensFirst ==
    /\ pc = "scan"
    /\ now' = now + 1
    /\ h5_file' = "open"
    /\ hf' = <<>>
    /\ IF all_videos = <<>>
       THEN /\ pc' = "empty"
            /\ returned' = ZeroStats
            /\ UNCHANGED <<idx, total_stats>>
       ELSE /\ total_stats' = [ZeroStats EXCEPT !.total_videos = Len(all_videos)]
            /\ idx' = 1
            /\ pc' = "open"
            /\ UNCHANGED returned
    /\ UNCHANGED <<all_videos, headAttr, hooks, metadata, start_time, cap,
                   frames_list, features, all_results>>
    /\ UNCHANGED fnVars

\* process_videos up to the loop: scan, early return, open the container
Scan ==
    /\ pc = "scan"
    /\ now' = now + 1
    /\ IF all_videos = <<>>
       THEN /\ pc' = "empty"
            /\ returned' = ZeroStats
            /\ UNCHANGED <<h5_file, hf, idx, total_stats>>
       ELSE /\ h5_file' = "open"
            /\ hf' = <<>>
            /\ total_stats' = [ZeroStats EXCEPT !.total_videos = Len(all_videos)]
            /\ idx' = 1
            /\ pc' = "open"
            /\ UNCHANGED returned
    /\ UNCHANGED <<all_videos, headAttr, hooks, metadata, start_time, cap,
                   frames_list, features, all_results>>
    /\ UNCHANGED fnVars

\* start of an iteration and cv2.VideoCapture(path): the file is what it is
OpenCapture ==
    /\ pc = "open"
    /\ start_time' = now
    /\ now' = now + 1
    /\ cap' \in Captures
    /\ pc' = "load"
    /\ UNCHANGED <<all_videos, headAttr, hooks, h5_file, hf, metadata, idx,
                   frames_list, features, all_results, total_stats, returned>>
    /\ UNCHANGED fnVars

\* the error load_video_opencv raises on capture c, or "ok"
LoadError(c) ==
    IF ~c.opened THEN ErrCannotOpen
    ELSE IF c.total_frames = 0 THEN ErrNoFrames
    ELSE IF Len(ReadFrames(c, MaxFrames)) = 0 THEN ErrNoRead
    ELSE "ok"

\* load_video_opencv, preprocess_frames, pack_pathway_output
LoadVideo ==
    /\ pc = "load"
    /\ now' = now + 1
    /\ cap' = NoCapture
    /\ IF LoadError(cap) # "ok"
       THEN /\ RecordFailure(LoadError(cap))
            /\ NextVideo
            /\ UNCHANGED frames_list
       ELSE /\ frames_list' = pack_pathway_output(
                    preprocess_frames(ReadFrames(cap, MaxFrames), TargetFrames))
            /\ pc' = "forward"
            /\ UNCHANGED <<idx, all_results, total_stats>>
    /\ UNCHANGED <<all_videos, headAttr, hooks, h5_file, hf, metadata, start_time,
                   features, returned>>
    /\ UNCHANGED fnVars

\* SlowFastFeatureExtractor.forward, called from the loop body
Forward ==
    /\ pc = "forward"
    /\ now' = now + 1
    /\ frames_list' = NoFrames
    /\ \E regRaises \in BOOLEAN, hookFires \in BOOLEAN, modelRaises \in BOOLEAN :
         LET registered == headAttr \in {"proj", "projection"} /\ ~regRaises
             during == IF registered THEN hooks + 1 ELSE hooks
         IN  IF modelRaises
             THEN \* self.model(x) raises: handle.remove() is not reached
                  /\ hooks' = during
                  /\ RecordFailure(ErrModel)
                  /\ NextVideo
                  /\ UNCHANGED features
             ELSE /\ hooks' = IF registered THEN during - 1 ELSE during
                  /\ features' = [src |-> idx,
                                  shape |-> IF registered /\ hookFires
                                            THEN "pre_proj" ELSE "output"]
                  /\ pc' = "write"
                  /\ UNCHANGED <<idx, all_results, total_stats>>
    /\ UNCHANGED <<all_videos, headAttr, h5_file, hf, metadata, start_time, cap,
                   returned>>
    /\ UNCHANGED fnVars

\* the success branch after create_dataset
RecordSuccess ==
    /\ all_results' = Append(all_results,
            [video |-> video_name, video_path |-> idx,
             feature_shape |-> features.shape,
             processing_time |-> (now + 1) - start_time, status |-> "success"])
    /\ total_stats' = [total_stats EXCEPT
            !.successful = @ + 1,
            !.processing_times = Append(@, (now + 1) - start_time),
            !.feature_shapes = Append(@, features.shape)]

CreateDatasetUncaught ==
    /\ pc = "write"
    /\ now' = now + 1
    /\ features' = NoFeatures
    /\ \E ioError \in BOOLEAN :
         IF video_name \in DOMAIN hf \/ ioError
         THEN /\ pc' = "aborted"
              /\ UNCHANGED <<hf, idx, all_results, total_stats>>
         ELSE /\ hf' = [k \in DOMAIN hf \cup {video_name} |->
                           IF k = video_name THEN features ELSE hf[k]]
              /\ RecordSuccess
              /\ NextVideo
    /\ UNCHANGED <<all_videos, headAttr, hooks, h5_file, metadata, start_time, cap,
                   frames_list, returned>>
    /\ UNCHANGED fnVars

\* hf.create_dataset(video_name, ...) inside the try, then the bookkeeping
CreateDataset ==
    /\ pc = "write"
    /\ now' = now + 1
    /\ features' = NoFeatures
    /\ \E ioError \in BOOLEAN :
         IF video_name \in DOMAIN hf
         THEN /\ RecordFailure(ErrExists)
              /\ UNCHANGED hf
         ELSE IF ioError
         THEN /\ RecordFailure(ErrWrite)
              /\ UNCHANGED hf
         ELSE /\ hf' = [k \in DOMAIN hf \cup {video_name} |->
                           IF k = video_name THEN features ELSE hf[k]]
              /\ RecordSuccess
    /\ NextVideo
    /\ UNCHANGED <<all_videos, headAttr, hooks, h5_file, metadata, start_time, cap,
                   frames_list, returned>>
    /\ UNCHANGED fnVars

\* end of the with block, json.dump of the report, return total_stats
WriteReport ==
    /\ pc = "report"
    /\ now' = now + 1
    /\ h5_file' = "closed"
    /\ metadata' = [total_statistics |-> total_stats,
                    feature_dimension |->
                        IF total_stats.feature_shapes # <<>>
                        THEN total_stats.feature_shapes[1] ELSE "None",
                    results |-> all_results]
    /\ returned' = total_stats
    /\ pc' = "done"
    /\ UNCHANGED <<all_videos, headAttr, hooks, hf, idx, start_time, cap,
                   frames_list, features, all_results, total_stats>>
    /\ UNCHANGED fnVars

Next ==
    \/ Scan
    \/ OpenCapture
    \/ LoadVideo
    \/ Forward
    \/ CreateDataset
    \/ WriteReport

Spec == Init /\ [][Next]_vars

----------------------------------------------------------------------------
(* The pure functions applied to bounded inputs *)

SmallCounts == 1..MaxF
LargeCounts == MaxFrames..(MaxFrames + MaxExtra)
Caps == (2..MaxM) \cup {MaxFrames}
Targets == (1..MaxM) \cup {TargetFrames}

InitFn ==
    /\ all_videos = <<>>
    /\ headAttr = "none"
    /\ h5_file = "absent"
    /\ Idle
    /\ FnIdle

CallFrameIndices ==
    /\ \E F \in SmallCounts \cup LargeCounts, M \in Caps :
         /\ called' = "frame_indices"
         /\ arg1' = F
         /\ arg2' = M
         /\ result' = FrameIndices(F, M)
         /\ result2' = <<>>
    /\ UNCHANGED driverVars

CallPreprocessFrames ==
    /\ \E T \in SmallCounts \cup LargeCounts, target_frames \in Targets :
         /\ called' = "preprocess_frames"
         /\ arg1' = T
         /\ arg2' = target_frames
         /\ result' = preprocess_frames(Range(T), target_frames)
         /\ result2' = <<>>
    /\ UNCHANGED driverVars

CallPackPathwayOutput ==
    /\ \E T \in SmallCounts \cup LargeCounts \cup {TargetFrames} :
         LET packed == pack_pathway_output(Range(T))
         IN  /\ called' = "pack_pathway_output"
             /\ arg1' = T
             /\ arg2' = 0
             /\ result' = packed.slow
             /\ result2' = packed.fast
    /\ UNCHANGED driverVars

NextFn ==
    \/ CallFrameIndices
    \/ CallPreprocessFrames
    \/ CallPackPathwayOutput

SpecFn == InitFn /\ [][NextFn]_vars

----------------------------------------------------------------------------
(* Properties of the batch driver, checked under Spec *)

Finished == pc \in {"done", "empty"}
Failed(r) == r.status = "failed"
Succeeded(r) == r.status = "success"
LastResult == all_results[Len(all_results)]
LoopContinues ==
    /\ idx' = idx + 1
    /\ pc' = IF idx < Len(all_videos) THEN "open" ELSE "report"

\* C1: when process_videos finishes, every discovered video has exactly one
\* record in the results list and at most one entry in the container, and
\* successful + failed = total_videos = number of records, with
\* processing_times and feature_shapes holding exactly `successful` elements.
C1_OneRecordPerVideo ==
    Finished =>
        /\ Len(all_results) = Len(all_videos)
        /\ \A i \in 1..Len(all_videos) :
              /\ Cardinality({k \in 1..Len(all_results) :
                                 all_results[k].video_path = i}) = 1
              /\ Cardinality({k \in DOMAIN hf : hf[k].src = i}) <= 1
        /\ returned.successful + returned.failed = returned.total_videos
        /\ returned.total_videos = Len(all_results)
        /\ Len(returned.processing_times) = returned.successful
        /\ Len(returned.feature_shapes) = returned.successful
        /\ pc = "done" => metadata.results = all_results
                          /\ metadata.total_statistics = returned

C1_Witness ==
    /\ pc = "done"
    /\ Len(all_videos) >= 3
    /\ returned.successful >= 1
    /\ returned.failed >= 2

\* C2: after a run, the number of container entries equals `successful`,
\* every failed record carries an error text, and no container key equals
\* the name of a failed record.
C2_FailedHasNoKey ==
    pc = "done" =>
        /\ Cardinality(DOMAIN hf) = total_stats.successful
        /\ \A k \in 1..Len(all_results) :
              Failed(all_results[k]) =>
                  /\ "error" \in DOMAIN all_results[k]
                  /\ all_results[k].error # "None"
                  /\ all_results[k].video \notin DOMAIN hf

\* video k got as far as create_dataset and the write did not fail for a
\* reason other than its name
ReachedWrite(k) ==
    \/ Succeeded(all_results[k])
    \/ Failed(all_results[k]) /\ all_results[k].error = ErrExists

\* C3: when two discovered videos have the same stem and both are processed
\* successfully up to the write step, both are recorded as successes and the
\* container entry under that stem holds the features of the later one.
C3_LastWriteWins ==
    pc = "done" =>
        \A i, j \in 1..Len(all_videos) :
            (i < j /\ all_videos[i] = all_videos[j]
                   /\ ReachedWrite(i) /\ ReachedWrite(j)) =>
                /\ Succeeded(all_results[i])
                /\ Succeeded(all_results[j])
                /\ all_videos[j] \in DOMAIN hf
                /\ hf[all_videos[j]].src >= j

\* C4: after every call of SlowFastFeatureExtractor.forward, whether the
\* wrapped model returned or raised, no hook is left registered on the
\* projection layer, so none is registered when the next call begins.
C4_HookRemoved == hooks = 0

Undecodable(c) == ~c.opened \/ c.total_frames = 0 \/ c.readable = {}

\* C6: for a video that cannot be opened, reports zero frames or yields no
\* decodable frame, the driver appends exactly one failed record with the
\* loader's message, adds one to `failed`, leaves the container and the
\* other statistics unchanged and goes on with the next video; the loop
\* ends only when every video has been attempted.
C6_LoadFailureIsolated ==
    /\ [][(pc = "load" /\ Undecodable(cap)) =>
             /\ Len(all_results') = Len(all_results) + 1
             /\ SubSeq(all_results', 1, Len(all_results)) = all_results
             /\ Failed(LastResult')
             /\ LastResult'.video_path = idx
             /\ LastResult'.error =
                   (IF ~cap.opened THEN ErrCannotOpen
                    ELSE IF cap.total_frames = 0 THEN ErrNoFrames ELSE ErrNoRead)
             /\ total_stats' = [total_stats EXCEPT !.failed = @ + 1]
             /\ hf' = hf
             /\ LoopContinues]_vars
    /\ [](pc \in {"report", "done"} => Len(all_results) = Len(all_videos))

C6_Witness ==
    /\ pc = "done"
    /\ Len(all_results) >= 3
    /\ Failed(all_results[1]) /\ all_results[1].error = ErrNoFrames
    /\ Failed(all_results[2]) /\ all_results[2].error = ErrCannotOpen
    /\ Succeeded(all_results[3])

\* C10: when the scanner finds no video, process_videos returns zeroed
\* statistics, leaves the container file as it was (neither created nor
\* truncated), writes no report, processes no video and does nothing more.
C10_EmptyScan ==
    /\ [][(pc = "scan" /\ all_videos = <<>>) =>
             /\ pc' = "empty"
             /\ returned' = ZeroStats
             /\ h5_file' = h5_file
             /\ UNCHANGED <<hf, metadata, all_results, idx, cap, hooks>>]_vars
    /\ [](pc = "empty" =>
             /\ returned = ZeroStats
             /\ h5_file \in {"absent", "old"}
             /\ metadata = "absent"
             /\ all_results = <<>>
             /\ idx = 0)
    /\ [][pc # "empty"]_vars

C10_Witness ==
    /\ pc = "empty"
    /\ h5_file = "old"
    /\ returned = ZeroStats

----------------------------------------------------------------------------
(* Properties of the pure functions, checked under SpecFn *)

StrictlyIncreasing(s) == \A i \in 1..(Len(s) - 1) : s[i] < s[i + 1]
NonDecreasing(s) == \A i \in 1..(Len(s) - 1) : s[i] <= s[i + 1]

\* C7: for a frame count F >= 1 and a cap M >= 2, the frame indices number
\* min(F, M), are strictly increasing and lie in 0..F-1; when F > M they
\* start at 0, end at F-1 and are the truncations of M evenly spaced values;
\* when F <= M they are exactly 0..F-1.
C7_FrameIndices ==
    called = "frame_indices" =>
        LET F == arg1
            M == arg2
        IN  /\ Len(result) = Min(F, M)
            /\ StrictlyIncreasing(result)
            /\ \A i \in 1..Len(result) : result[i] \in 0..(F - 1)
            /\ F > M =>
                  /\ result[1] = 0
                  /\ result[Len(result)] = F - 1
                  /\ \A i \in 1..Len(result) :
                        /\ (M - 1) * result[i] <= (i - 1) * (F - 1)
                        /\ (i - 1) * (F - 1) < (M - 1) * (result[i] + 1)
            /\ F <= M => \A i \in 1..Len(result) : result[i] = i - 1

C7_Witness ==
    /\ called = "frame_indices"
    /\ arg2 = MaxFrames
    /\ arg1 > arg2
    /\ Len(result) = MaxFrames

\* C8 (as stated): for T >= 1 input frames and target_frames >= 1 the output
\* has exactly target_frames frames; when T > target_frames they are taken at
\* increasing indices that include the first and the last input frame; when
\* T < target_frames output frame j is input frame j mod T; when equal the
\* frames are kept in order.
C8_TemporalResample ==
    called = "preprocess_frames" =>
        LET T == arg1
            target_frames == arg2
        IN  /\ Len(result) = target_frames
            /\ T > target_frames =>
                  /\ StrictlyIncreasing(result)
                  /\ result[1] = 0
                  /\ result[Len(result)] = T - 1
            /\ T < target_frames =>
                  \A j \in 1..Len(result) : result[j] = (j - 1) % T
            /\ T = target_frames =>
                  \A j \in 1..Len(result) : result[j] = j - 1

\* C8 (amended): as stated, except that the last input frame is included only
\* when target_frames >= 2; with target_frames = 1 and T > 1 the single output
\* frame is the first input frame.
C8_TemporalResampleFromTwo ==
    called = "preprocess_frames" =>
        LET T == arg1
            target_frames == arg2
        IN  /\ Len(result) = target_frames
            /\ T > target_frames =>
                  /\ StrictlyIncreasing(result)
                  /\ result[1] = 0
                  /\ target_frames >= 2 => result[Len(result)] = T - 1
                  /\ target_frames = 1 => result = <<0>>
            /\ T < target_frames =>
                  \A j \in 1..Len(result) : result[j] = (j - 1) % T
            /\ T = target_frames =>
                  \A j \in 1..Len(result) : result[j] = j - 1

C8_Witness ==
    /\ called = "preprocess_frames"
    /\ arg2 = TargetFrames
    /\ arg1 = MaxFrames
    /\ result[1] = 0
    /\ result[TargetFrames] = MaxFrames - 1

\* The slow pathway is made of frames of the fast pathway, taken at
\* non-decreasing positions.
SlowWithinFast ==
    /\ NonDecreasing(result)
    /\ \A i \in 1..Len(result) : \E j \in 1..Len(result2) : result[i] = result2[j]

\* C9 (as stated): for T >= 1 the fast pathway is the input, the slow pathway
\* has max(1, ceil(T/4)) frames, all of them frames of the fast pathway taken
\* at non-decreasing indices.
C9_SlowLengthCeil ==
    called = "pack_pathway_output" =>
        /\ result2 = Range(arg1)
        /\ Len(result) = Max(1, (arg1 + 3) \div 4)
        /\ SlowWithinFast

\* C9 (amended): the slow pathway has floor(T/4) frames when T >= 4 and all T
\* frames when T < 4; the rest as stated.
C9_SlowLengthFloor ==
    called = "pack_pathway_output" =>
        /\ result2 = Range(arg1)
        /\ Len(result) = (IF arg1 >= 4 THEN arg1 \div 4 ELSE arg1)
        /\ SlowWithinFast

C9_Witness ==
    /\ called = "pack_pathway_output"
    /\ arg1 = TargetFrames
    /\ Len(result) = 8
    /\ result[1] = 0
    /\ result[8] = TargetFrames - 1

====
